---- MODULE Spec2Model ----
(***************************************************************************)
(* A model of scripts/createModel.py: the translation of the tab-delimited *)
(* tables (compartments, species, stoichiometry, rate laws, observables)   *)
(* into an Antimony model text, its conversion to SBML, the annotation of  *)
(* the SBML document, the observable formulas and the AMICI compilation.   *)
(*                                                                         *)
(* Text is a sequence of one-character strings, so that Python's string    *)
(* concatenation, slicing, str(), re.finditer and str.replace are computed *)
(* character by character.  A float is <<n>> for the number n and <<>> for *)
(* NaN.  Python index k of a list is index k+1 of the sequence.            *)
(***************************************************************************)
EXTENDS Integers, Sequences, FiniteSets, TLC

----------------------------------------------------------------------------
(* Bounds of the model.                                                    *)

\* number of reactions (rows of Ratelaws.txt, columns of StoicMat.txt)
MaxRows == 2
\* number of trailing parameter columns of a Ratelaws.txt row
NCols == 2
\* number of observables (columns of Observables.txt)
NObs == 2
\* longest formula template enumerated character by character
MaxFormulaLen == 5
\* number of columns of a Species.txt row after the initial value
NAnnotCols == 3

----------------------------------------------------------------------------
(* Text: Python str as a sequence of characters.                           *)

Digits == <<"0", "1", "2", "3", "4", "5", "6", "7", "8", "9">>

IsDigit(c) == \E d \in 1..10 : Digits[d] = c

\* str(n) of a non-negative int
RECURSIVE Str(_)
Str(n) == IF n < 10 THEN <<Digits[n + 1]>>
          ELSE Str(n \div 10) \o <<Digits[(n % 10) + 1]>>

DigitValue(c) == (CHOOSE d \in 1..10 : Digits[d] = c) - 1

\* int(s) of a string of decimal digits
RECURSIVE ParseInt(_)
ParseInt(s) == IF Len(s) = 0 THEN 0
               ELSE 10 * ParseInt(SubSeq(s, 1, Len(s) - 1)) + DigitValue(s[Len(s)])

NaN == <<>>

nanText == <<"n", "a", "n">>

\* float(s) / np.double(s): "nan" parses to NaN, a digit string to its number
ParseFloat(s) == IF s = nanText THEN NaN ELSE <<ParseInt(s)>>

\* s.startswith(t, p) with p a Python index
StartsWithAt(s, t, p) ==
    /\ p + Len(t) <= Len(s)
    /\ \A i \in 1..Len(t) : s[p + i] = t[i]

\* "k" in s
Contains(s, c) == \E i \in 1..Len(s) : s[i] = c

\* the number of consecutive characters of s from Python index p on that are
\* (digit = TRUE) digits or (digit = FALSE) non-digits
RECURSIVE Run(_, _, _)
Run(s, p, digit) ==
    IF p < Len(s) /\ (IsDigit(s[p + 1]) <=> digit)
    THEN 1 + Run(s, p + 1, digit)
    ELSE 0

\* re.match of  k \D* \d* suffix  at Python index p of s, with the regex
\* engine's greedy choice and backtracking: the longest \D* first, then the
\* longest \d*, backing off one character at a time.  The end index of the
\* match, or -1.
RECURSIVE MatchDigits(_, _, _, _)
MatchDigits(s, p, y, suffix) ==
    IF StartsWithAt(s, suffix, p + y) THEN p + y + Len(suffix)
    ELSE IF y = 0 THEN -1
    ELSE MatchDigits(s, p, y - 1, suffix)

RECURSIVE MatchNonDigits(_, _, _, _)
MatchNonDigits(s, p, x, suffix) ==
    LET e == MatchDigits(s, p + x, Run(s, p + x, TRUE), suffix)
    IN  IF e >= 0 THEN e
        ELSE IF x = 0 THEN -1
        ELSE MatchNonDigits(s, p, x - 1, suffix)

MatchAt(s, p, suffix) ==
    IF p < Len(s) /\ s[p + 1] = "k"
    THEN MatchNonDigits(s, p + 1, Run(s, p + 1, FALSE), suffix)
    ELSE -1

\* [m.group() for m in re.compile(pattern).finditer(s)]: the non-overlapping
\* matches, leftmost first, scanning from Python index p
RECURSIVE FindIter(_, _, _)
FindIter(s, p, suffix) ==
    IF p >= Len(s) THEN <<>>
    ELSE LET e == MatchAt(s, p, suffix)
         IN  IF e >= 0
             THEN <<SubSeq(s, p + 1, e)>> \o FindIter(s, e, suffix)
             ELSE FindIter(s, p + 1, suffix)

\* s.replace(old, new) for a non-empty old: every non-overlapping occurrence,
\* left to right
RECURSIVE Replace(_, _, _)
Replace(s, old, new) ==
    IF Len(s) = 0 THEN <<>>
    ELSE IF StartsWithAt(s, old, 0)
         THEN new \o Replace(SubSeq(s, Len(old) + 1, Len(s)), old, new)
         ELSE <<s[1]>> \o Replace(Tail(s), old, new)

\* for ematch in matches: formula = formula.replace(ematch.group(), name)
RECURSIVE ReplaceEach(_, _, _)
ReplaceEach(formula, matches, name) ==
    IF Len(matches) = 0 THEN formula
    ELSE ReplaceEach(Replace(formula, matches[1], name), Tail(matches), name)

----------------------------------------------------------------------------
(* The input tables.                                                       *)

\* Compartments.txt without its header: name, volume, annotation
compartment_sheet ==
    << <<"Cytoplasm", 4, "GO:0005737">>,
       <<"Nucleus",   2, "GO:0005634">> >>

\* the first column of Species.txt and of StoicMat.txt
SpeciesNames == << <<"A">>, <<"B">>, <<"C">> >>

\* the first column of Ratelaws.txt, which is also the header of StoicMat.txt
ReactionNames == [i \in 1..MaxRows |-> <<"R">> \o Str(i)]

VARIABLES
    ratelaw_sheet,   \* Ratelaws.txt without its header
    stoic_data,      \* StoicMat.txt without header and first column, as int()
    species_sheet,   \* Species.txt without its header
    ObservablesTxt,  \* Observables.txt as pandas reads it
    pc,              \* the statement the script is at
    rowNum,          \* the index of the loop the script is in
    paramnames, paramvals, paramrxns, paramidxs,
    reactionLines,   \* the reaction lines written to SPARCED.txt
    params_all,      \* ParamsAll.txt
    calls,           \* the calls made to antimony, libsbml and amici
    speciesAnnot,    \* per species: the annotation set and how often
    compAnnot,       \* per compartment: the annotation set and how often
    ObsMat,          \* the observables table once it is read
    formula_i,       \* the loop variable of the observable loop
    formula_obs,
    observables      \* the observables handed to sbml2amici

inputs == <<ratelaw_sheet, stoic_data, species_sheet, ObservablesTxt>>
synth  == <<rowNum, paramnames, paramvals, paramrxns, paramidxs, reactionLines>>
annot  == <<speciesAnnot, compAnnot>>
obsv   == <<ObsMat, formula_i, formula_obs, observables>>
vars   == <<inputs, pc, synth, params_all, calls, annot, obsv>>

stoic_rownames == SpeciesNames
stoic_columnnames == ReactionNames

\* ratelaw_data = [line[1:] for line in ratelaw_sheet[1:]]
ratelaw_data == [r \in 1..Len(ratelaw_sheet) |-> Tail(ratelaw_sheet[r])]

----------------------------------------------------------------------------
(* One rate-law row: lines 119-175.                                        *)

\* [x] * n
RECURSIVE Times(_, _)
Times(x, n) == IF n <= 0 THEN <<>> ELSE x \o Times(x, n - 1)

\* lines 124-132: the reactants, the products and the mass-action formula
\* after the stoichiometry rows i..len(stoic_rownames)-1 (Python index i)
RECURSIVE ExpandStoic(_, _, _)
ExpandStoic(col, i, acc) ==
    IF i >= Len(stoic_rownames) THEN acc
    ELSE LET stoic_rowname == stoic_rownames[i + 1]
             stoic_value == stoic_data[i + 1][col + 1]
         IN  ExpandStoic(col, i + 1,
               IF stoic_value < 0
               THEN [acc EXCEPT
                       !.reactants = @ \o Times(<<stoic_rowname>>, stoic_value * (-1)),
                       !.formula = @ \o Times(stoic_rowname \o <<"*">>, stoic_value * (-1))]
               ELSE IF stoic_value > 0
               THEN [acc EXCEPT !.products = @ \o Times(<<stoic_rowname>>, stoic_value)]
               ELSE acc)

\* the name with range's index: "k"+str(rowNum)
MassActionName_ZeroBased(row) == <<"k">> \o Str(row)

\* "k"+str(rowNum+1)
MassActionName(row) == <<"k">> \o Str(row + 1)

\* the name without the row: "k"+"_"+str(j)
ParamName_NoRow(row, j) == <<"k">> \o <<"_">> \o Str(j)

\* "k"+str(rowNum+1)+"_"+str(j)
ParamName(row, j) == <<"k">> \o Str(row + 1) \o <<"_">> \o Str(j)

\* "k" not in ratelaw[1]
IsMassAction(ratelaw) == ~Contains(ratelaw[2], "k")

\* the parameters without the isnan filter
NonMissing_KeepNaN(ratelaw) ==
    LET trailing == SubSeq(ratelaw, 3, Len(ratelaw))
    IN  [c \in 1..Len(trailing) |-> ParseFloat(trailing[c])]

\* params = np.genfromtxt(ratelaw[2:], float); params = params[~np.isnan(params)]
NonMissing(ratelaw) ==
    LET trailing == SubSeq(ratelaw, 3, Len(ratelaw))
        parsed == [c \in 1..Len(trailing) |-> ParseFloat(trailing[c])]
    IN  SelectSeq(parsed, LAMBDA v : v # NaN)

\* paramvals.append(float(ratelaw[j+1]))
ParamValue(ratelaw, j) == ParseFloat(ratelaw[j + 2])

\* lines 153-157: the substitution of a single-parameter formula
SubstituteSingle(formula, name) ==
    ReplaceEach(formula, FindIter(formula, 0, <<>>), name)

\* lines 164-168: the substitution of slot j of a multi-parameter formula
SubstituteSlot(formula, j, name) ==
    ReplaceEach(formula, FindIter(formula, 0, <<"_">> \o Str(j)), name)

\* lines 159-169: the formula after the slots j..n
RECURSIVE SubstituteSlots(_, _, _, _)
SubstituteSlots(formula, row, j, n) ==
    IF j > n THEN formula
    ELSE SubstituteSlots(SubstituteSlot(formula, j, ParamName(row, j)), row, j + 1, n)

\* lines 134-169: the parameters a row adds and its formula
RowParams(row, ratelaw, massFormula) ==
    IF IsMassAction(ratelaw)
    THEN [names   |-> <<MassActionName(row)>>,
          vals    |-> <<ParseFloat(ratelaw[2])>>,
          idxs    |-> <<0>>,
          formula |-> SubSeq(massFormula, 1, Len(massFormula) - 1)]
    ELSE LET n == Len(NonMissing(ratelaw))
         IN  IF n = 1
             THEN [names   |-> <<ParamName(row, 1)>>,
                   vals    |-> <<ParamValue(ratelaw, 1)>>,
                   idxs    |-> <<0>>,
                   formula |-> SubstituteSingle(ratelaw[2], ParamName(row, 1))]
             ELSE [names   |-> [q \in 1..n |-> ParamName(row, q)],
                   vals    |-> [q \in 1..n |-> ParamValue(ratelaw, q)],
                   idxs    |-> [q \in 1..n |-> q - 1],
                   formula |-> SubstituteSlots(ratelaw[2], row, 1, n)]

\* the test with "or" for "and"
IsEmptyReaction_Either(reactants, products) == products = <<>> \/ reactants = <<>>

\* line 172: products == [] and reactants == []
IsEmptyReaction(reactants, products) == products = <<>> /\ reactants = <<>>

\* One iteration of the loop of lines 119-175.
RatelawRow ==
    /\ pc = "ratelaws"
    /\ rowNum < Len(ratelaw_data)
    /\ LET ratelaw == ratelaw_data[rowNum + 1]
           stoic == ExpandStoic(rowNum, 0,
                      [reactants |-> <<>>, products |-> <<>>,
                       formula |-> <<"k">> \o Str(rowNum + 1) \o <<"*">>])
           p == RowParams(rowNum, ratelaw, stoic.formula)
       IN  /\ paramnames' = paramnames \o p.names
           /\ paramvals' = paramvals \o p.vals
           /\ paramrxns' = paramrxns \o [q \in 1..Len(p.names) |-> ratelaw_sheet[rowNum + 1][1]]
           /\ paramidxs' = paramidxs \o p.idxs
           /\ reactionLines' =
                IF IsEmptyReaction(stoic.reactants, stoic.products)
                THEN reactionLines
                ELSE Append(reactionLines,
                       [name      |-> stoic_columnnames[rowNum + 1],
                        reactants |-> stoic.reactants,
                        products  |-> stoic.products,
                        formula   |-> p.formula,
                        scale     |-> ratelaw[1]])
    /\ rowNum' = rowNum + 1
    /\ UNCHANGED <<inputs, pc, params_all, calls, annot, obsv>>

\* Lines 177-222: ParamsAll.txt is written and SPARCED.txt is completed and
\* closed.
ExportParams ==
    /\ pc = "ratelaws"
    /\ rowNum = Len(ratelaw_data)
    /\ params_all' = [q \in 1..Len(paramnames) |->
                        [name |-> paramnames[q], value |-> paramvals[q],
                         rxn |-> paramrxns[q], idx |-> paramidxs[q]]]
    /\ pc' = "load"
    /\ UNCHANGED <<inputs, synth, calls, annot, obsv>>

----------------------------------------------------------------------------
(* Conversion to SBML: lines 224-237.                                      *)

Call(fn, ok) == [fn |-> fn, ok |-> ok]

\* the load without the exit(1) of line 231
LoadAntimony_NoExit ==
    /\ pc = "load"
    /\ \E ok \in BOOLEAN :
         /\ calls' = Append(calls, Call("loadFile", ok))
         /\ pc' = "write"
    /\ UNCHANGED <<inputs, synth, params_all, annot, obsv>>

\* Lines 227-231: sb.loadFile returns 1 or not; exit(1) when it does not.
LoadAntimony ==
    /\ pc = "load"
    /\ \E ok \in BOOLEAN :
         /\ calls' = Append(calls, Call("loadFile", ok))
         /\ pc' = IF ok THEN "write" ELSE "exit1"
    /\ UNCHANGED <<inputs, synth, params_all, annot, obsv>>

\* Lines 233-237: sb.writeSBMLFile returns 1 or not; exit(1) when it does not.
WriteSBML ==
    /\ pc = "write"
    /\ \E ok \in BOOLEAN :
         /\ calls' = Append(calls, Call("writeSBMLFile", ok))
         /\ pc' = IF ok THEN "annotate" ELSE "exit1"
    /\ UNCHANGED <<inputs, synth, params_all, annot, obsv>>

----------------------------------------------------------------------------
(* Annotation: lines 239-263.                                              *)

\* str.strip(): leading and trailing blanks removed
RECURSIVE Strip(_)
Strip(s) == IF Len(s) = 0 THEN s
            ELSE IF s[1] = " " THEN Strip(Tail(s))
            ELSE IF s[Len(s)] = " " THEN Strip(SubSeq(s, 1, Len(s) - 1))
            ELSE s

\* the first annotation column read: for col in range(4, len(row))
FirstAnnotCol == 4

\* lines 249-254: the annotation built from the columns col..len(row)-1
\* (Python indices)
RECURSIVE BuildAnnot(_, _, _)
BuildAnnot(row, col, Annot) ==
    IF col >= Len(row) THEN Annot
    ELSE LET aa == Strip(row[col + 1])
         IN  IF aa = nanText \/ aa = <<>>
             THEN Annot
             ELSE BuildAnnot(row, col + 1, Annot \o <<" ">> \o row[col + 1])

\* Lines 242-244: the SBML document is read back.
OpenSBML ==
    /\ pc = "annotate"
    /\ calls' = Append(calls, Call("readSBML", TRUE))
    /\ rowNum' = 0
    /\ pc' = "annotateSpecies"
    /\ UNCHANGED <<inputs, paramnames, paramvals, paramrxns, paramidxs,
                   reactionLines, params_all, annot, obsv>>

\* One iteration of the loop of lines 247-255, and the step to the next loop
\* after its last iteration.
AnnotateSpecies ==
    /\ pc = "annotateSpecies"
    /\ rowNum < Len(species_sheet)
    /\ LET row == species_sheet[rowNum + 1]
           Annot == BuildAnnot(row, FirstAnnotCol, <<>>)
       IN  speciesAnnot' = [speciesAnnot EXCEPT
                              ![row[1]] = [text |-> Annot, sets |-> @.sets + 1]]
    /\ rowNum' = IF rowNum + 1 = Len(species_sheet) THEN 0 ELSE rowNum + 1
    /\ pc' = IF rowNum + 1 = Len(species_sheet) THEN "annotateCompartments" ELSE pc
    /\ UNCHANGED <<inputs, paramnames, paramvals, paramrxns, paramidxs,
                   reactionLines, params_all, calls, compAnnot, obsv>>

\* One iteration of the loop of lines 258-259.
AnnotateCompartment ==
    /\ pc = "annotateCompartments"
    /\ rowNum < Len(compartment_sheet)
    /\ LET row == compartment_sheet[rowNum + 1]
       IN  compAnnot' = [compAnnot EXCEPT
                           ![row[1]] = [text |-> row[3], sets |-> @.sets + 1]]
    /\ rowNum' = rowNum + 1
    /\ UNCHANGED <<inputs, pc, paramnames, paramvals, paramrxns, paramidxs,
                   reactionLines, params_all, calls, speciesAnnot, obsv>>

----------------------------------------------------------------------------
(* Observables: lines 261-313.                                             *)

RECURSIVE GCD(_, _)
GCD(a, b) == IF b = 0 THEN a ELSE GCD(b, a % b)

Abs(n) == IF n < 0 THEN 0 - n ELSE n

\* the quotient n/d of two numbers, d > 0, in lowest terms
Frac(n, d) == LET g == GCD(Abs(n), d) IN <<n \div g, d \div g>>

\* the volume of the first compartment of that name:
\* float(compartment_sheet[compartment_sheet[:,0]==name,1][0])
VolumeOf(name) ==
    compartment_sheet[CHOOSE c \in 1..Len(compartment_sheet) :
                        /\ compartment_sheet[c][1] = name
                        /\ \A b \in 1..(c - 1) : compartment_sheet[b][1] # name][2]

\* line 285
Vc == VolumeOf("Cytoplasm")

\* lines 288-290
Vol_species == [i \in 1..Len(species_sheet) |-> VolumeOf(species_sheet[i][2])]

\* Lines 262-290: the annotated document is written and read back, the
\* importer is made and Observables.txt is read.
ReadObservables ==
    /\ pc = "annotateCompartments"
    /\ rowNum = Len(compartment_sheet)
    /\ calls' = calls \o <<Call("writeSBML", TRUE), Call("SbmlImporter", TRUE)>>
    /\ ObsMat' = ObservablesTxt
    /\ rowNum' = 0
    /\ pc' = "observables"
    /\ UNCHANGED <<inputs, paramnames, paramvals, paramrxns, paramidxs,
                   reactionLines, params_all, annot, formula_i, formula_obs,
                   observables>>

\* seq[k] with a Python index k, negative from the end
PyAt(seq, k) == IF k < 0 THEN seq[Len(seq) + k + 1] ELSE seq[k + 1]

\* ObsMat.loc[:,obs]>0
IsContributor(weight) == weight > 0

\* np.nonzero(np.array(ObsMat.loc[:,obs]>0))[0]: the Python indices, ascending
RECURSIVE NonZero(_, _)
NonZero(column, i) ==
    IF i >= Len(column) THEN <<>>
    ELSE (IF IsContributor(column[i + 1]) THEN <<i>> ELSE <<>>) \o NonZero(column, i + 1)

\* the term with Vf[j] for Vf[sp_obs_id][j]
Term_Unselected(sp_obs, sp_obs_id, Vf, j) ==
    [species |-> PyAt(sp_obs, j), coef |-> PyAt(Vf, j)]

\* sp_obs[j]+'*'+str(Vf[sp_obs_id][j])
Term(sp_obs, sp_obs_id, Vf, j) ==
    [species |-> PyAt(sp_obs, j), coef |-> PyAt(Vf, PyAt(sp_obs_id, j))]

\* lines 304-305: the terms j..len(sp_obs)-2, each followed by '+'
RECURSIVE LeadingTerms(_, _, _, _)
LeadingTerms(sp_obs, sp_obs_id, Vf, j) ==
    IF j >= Len(sp_obs) - 1 THEN <<>>
    ELSE <<Term(sp_obs, sp_obs_id, Vf, j)>> \o LeadingTerms(sp_obs, sp_obs_id, Vf, j + 1)

\* lines 294-306: the formula of column obs (a Python index), or formula_i
\* as it was when no branch assigns it
ObsFormula(obs, previous) ==
    LET column == [r \in 1..Len(ObsMat.values) |-> ObsMat.values[r][obs + 1]]
        sp_obs_id == NonZero(column, 0)
        sp_obs == [j \in 1..Len(sp_obs_id) |-> ObsMat.index[sp_obs_id[j] + 1]]
        Vr == [r \in 1..Len(Vol_species) |-> Frac(Vol_species[r], Vc)]
        Vf == [r \in 1..Len(Vr) |-> Frac(Vr[r][1] * column[r], Vr[r][2])]
    IN  IF Len(sp_obs) = 1
        THEN [bound |-> TRUE, terms |-> <<Term(sp_obs, sp_obs_id, Vf, 0)>>]
        ELSE IF Len(sp_obs) = 2
        THEN [bound |-> TRUE,
              terms |-> <<Term(sp_obs, sp_obs_id, Vf, 0), Term(sp_obs, sp_obs_id, Vf, 1)>>]
        ELSE IF Len(sp_obs) > 2
        THEN [bound |-> TRUE,
              terms |-> LeadingTerms(sp_obs, sp_obs_id, Vf, 0)
                          \o <<Term(sp_obs, sp_obs_id, Vf, -1)>>]
        ELSE previous

\* One iteration of the loop of lines 293-307.  formula_obs.append(formula_i)
\* raises NameError when formula_i was never assigned.
ObsColumn ==
    /\ pc = "observables"
    /\ rowNum < Len(ObsMat.columns)
    /\ LET f == ObsFormula(rowNum, formula_i)
       IN  /\ formula_i' = f
           /\ IF f.bound
              THEN /\ formula_obs' = Append(formula_obs, f.terms)
                   /\ rowNum' = rowNum + 1
                   /\ pc' = pc
              ELSE /\ pc' = "crashed"
                   /\ UNCHANGED <<formula_obs, rowNum>>
    /\ UNCHANGED <<inputs, paramnames, paramvals, paramrxns, paramidxs,
                   reactionLines, params_all, calls, annot, ObsMat, observables>>

\* Lines 309-322: the observables dictionary and the compilation.
Compile ==
    /\ pc = "observables"
    /\ rowNum = Len(ObsMat.columns)
    /\ LET obs_names == ObsMat.columns
       IN  observables' = [i \in 1..Len(obs_names) |->
                             [name |-> obs_names[i], formula |-> formula_obs[i]]]
    /\ calls' = Append(calls, Call("sbml2amici", TRUE))
    /\ pc' = "done"
    /\ UNCHANGED <<inputs, synth, params_all, annot, ObsMat, formula_i, formula_obs>>

Next ==
    \/ RatelawRow
    \/ ExportParams
    \/ LoadAntimony
    \/ WriteSBML
    \/ OpenSBML
    \/ AnnotateSpecies
    \/ AnnotateCompartment
    \/ ReadObservables
    \/ ObsColumn
    \/ Compile

----------------------------------------------------------------------------
(* Initial states: the tables a run can be given.                          *)

\* a trailing rate-law cell of column c: missing, or the number c+2, so
\* that the columns hold different numbers
Cells(c) == {nanText, Str(c + 2)}

\* every arrangement of missing and given trailing cells
Trailings == {t \in [1..NCols -> UNION {Cells(c) : c \in 1..NCols}] :
                \A c \in 1..NCols : t[c] \in Cells(c)}

AllMissing == [c \in 1..NCols |-> nanText]

\* the first n trailing cells numeric, the others missing
FirstGiven(n) == [c \in 1..NCols |-> IF c <= n THEN Str(c + 2) ELSE nanText]

MassField == <<"7">>

Template == <<"k", "_", "1", "*", "A", "/", "k", "_", "2">>

SheetRow(i, field, trailing) == <<ReactionNames[i], "Cytoplasm", field>> \o trailing

MassRow(i) == SheetRow(i, MassField, AllMissing)

\* the characters formula templates are enumerated over
Alphabet == {"k", "S", "1", "2", "_", "*"}

Texts(n) == UNION {[1..l -> Alphabet] : l \in 1..n}

\* t is operand * operand * ... * operand, each operand a number or an
\* identifier that does not start with a digit
RECURSIVE IsProduct(_)
IsProduct(t) ==
    LET stop == IF \E c \in 1..Len(t) : t[c] = "*"
                THEN CHOOSE c \in 1..Len(t) : t[c] = "*" /\ \A b \in 1..(c - 1) : t[b] # "*"
                ELSE Len(t) + 1
        operand == SubSeq(t, 1, stop - 1)
    IN  /\ Len(operand) >= 1
        /\ IsDigit(operand[1]) => \A c \in 1..Len(operand) : IsDigit(operand[c])
        /\ stop <= Len(t) => IsProduct(SubSeq(t, stop + 1, Len(t)))

\* the formula templates enumerated: the products that hold a parameter token
Templates == {t \in Texts(MaxFormulaLen) : Contains(t, "k") /\ IsProduct(t)}

\* the coefficients a stoichiometry cell of species row s is drawn from
StoichValues(s) == IF s = 1 THEN {-2, 0, 1} ELSE {-1, 0, 1}

DefaultStoic ==
    [s \in 1..Len(SpeciesNames) |->
       [r \in 1..MaxRows |-> IF s = 1 THEN -1 ELSE IF s = 2 THEN 1 ELSE 0]]

DefaultRatelaws ==
    [i \in 1..MaxRows |->
       IF i % 2 = 1 THEN MassRow(i) ELSE SheetRow(i, Template, FirstGiven(NCols))]

HomeOf(s) == IF s = 1 THEN "Cytoplasm" ELSE "Nucleus"

SpeciesRow(s, annotation) == <<SpeciesNames[s], HomeOf(s), <<"1", "0">>>> \o annotation

DefaultSpecies ==
    [s \in 1..Len(SpeciesNames) |-> SpeciesRow(s, << <<"E">>, <<"H">> >>)]

\* an annotation cell of Species.txt
AnnotCells == {<<>>, <<" ">>, nanText, <<"H">>, <<"U">>}

\* the annotation columns of a row: line.strip() leaves no blank last cell
AnnotRows ==
    {a \in UNION {[1..l -> AnnotCells] : l \in 0..NAnnotCols} :
        Len(a) > 0 => Strip(a[Len(a)]) # <<>>}

\* a membership weight of Observables.txt
Weights == {-1, 0, 2}

ObsNames == [o \in 1..NObs |-> <<"O">> \o Str(o)]

ObsTable(values) == [index |-> SpeciesNames, columns |-> ObsNames, values |-> values]

DefaultObs == ObsTable([s \in 1..Len(SpeciesNames) |-> [o \in 1..NObs |-> 2]])

\* the state when the loop of line 119 is reached
Start ==
    /\ pc = "ratelaws"
    /\ rowNum = 0
    /\ paramnames = <<>>
    /\ paramvals = <<>>
    /\ paramrxns = <<>>
    /\ paramidxs = <<>>
    /\ reactionLines = <<>>
    /\ params_all = <<>>
    /\ calls = <<>>
    /\ speciesAnnot = [n \in {SpeciesNames[s] : s \in 1..Len(SpeciesNames)} |->
                         [text |-> <<>>, sets |-> 0]]
    /\ compAnnot = [n \in {compartment_sheet[c][1] : c \in 1..Len(compartment_sheet)} |->
                      [text |-> "", sets |-> 0]]
    /\ ObsMat = [index |-> <<>>, columns |-> <<>>, values |-> <<>>]
    /\ formula_i = [bound |-> FALSE, terms |-> <<>>]
    /\ formula_obs = <<>>
    /\ observables = <<>>

\* every arrangement of rate-law rows: mass action, or a template with every
\* arrangement of missing and given trailing cells
InitParams ==
    /\ Start
    /\ \E kind \in [1..MaxRows -> {<<>>} \cup Trailings] :
         ratelaw_sheet = [i \in 1..MaxRows |->
                            IF kind[i] = <<>> THEN MassRow(i)
                            ELSE SheetRow(i, Template, kind[i])]
    /\ stoic_data = DefaultStoic
    /\ species_sheet = DefaultSpecies
    /\ ObservablesTxt = DefaultObs

\* every stoichiometry of the species A and B, every row mass action or template
InitReact ==
    /\ Start
    /\ \E mass \in [1..MaxRows -> BOOLEAN] :
         ratelaw_sheet = [i \in 1..MaxRows |->
                            IF mass[i] THEN MassRow(i)
                            ELSE SheetRow(i, Template, FirstGiven(NCols))]
    /\ \E a \in [1..MaxRows -> StoichValues(1)], b \in [1..MaxRows -> StoichValues(2)] :
         stoic_data = [s \in 1..Len(SpeciesNames) |->
                         IF s = 1 THEN a ELSE IF s = 2 THEN b
                         ELSE [r \in 1..MaxRows |-> 0]]
    /\ species_sheet = DefaultSpecies
    /\ ObservablesTxt = DefaultObs

\* every formula template of the first row, with one or two parameters
InitSubst ==
    /\ Start
    /\ \E field \in Templates, n \in 1..2 :
         ratelaw_sheet = [i \in 1..MaxRows |->
                            IF i = 1 THEN SheetRow(i, field, FirstGiven(n))
                            ELSE MassRow(i)]
    /\ stoic_data = DefaultStoic
    /\ species_sheet = DefaultSpecies
    /\ ObservablesTxt = DefaultObs

\* every membership matrix
InitObs ==
    /\ Start
    /\ ratelaw_sheet = DefaultRatelaws
    /\ stoic_data = DefaultStoic
    /\ species_sheet = DefaultSpecies
    /\ \E values \in [1..Len(SpeciesNames) -> [1..NObs -> Weights]] :
         ObservablesTxt = ObsTable(values)

\* every arrangement of annotation columns of the first two species
InitAnnot ==
    /\ Start
    /\ ratelaw_sheet = DefaultRatelaws
    /\ stoic_data = DefaultStoic
    /\ \E a \in AnnotRows, b \in {r \in AnnotRows : Len(r) <= 2} :
         species_sheet = [s \in 1..Len(SpeciesNames) |->
                            IF s = 1 THEN SpeciesRow(s, a)
                            ELSE IF s = 2 THEN SpeciesRow(s, b)
                            ELSE DefaultSpecies[s]]
    /\ ObservablesTxt = DefaultObs

SpecParams == InitParams /\ [][Next]_vars
SpecReact  == InitReact /\ [][Next]_vars
SpecSubst  == InitSubst /\ [][Next]_vars
SpecObs    == InitObs /\ [][Next]_vars
SpecAnnot  == InitAnnot /\ [][Next]_vars

----------------------------------------------------------------------------
(* Properties of a run, stated from the tables.                            *)

\* the rate-law rows the loop of line 119 has finished
ProcessedRows == IF pc = "ratelaws" THEN rowNum ELSE Len(ratelaw_sheet)

\* the primary field of rate-law row i holds a symbolic parameter token
IsTemplateRow(i) == \E c \in 1..Len(ratelaw_sheet[i][3]) : ratelaw_sheet[i][3][c] = "k"

\* the trailing cells of rate-law row i that are not missing, in column order
GivenCells(i) ==
    LET row == ratelaw_sheet[i]
    IN  SelectSeq([c \in 1..(Len(row) - 3) |-> row[c + 3]], LAMBDA cell : cell # nanText)

\* the positions in the parameter lists of the parameters owned by row i
EntriesOf(i) ==
    SelectSeq([q \in 1..Len(paramnames) |-> q],
              LAMBDA q : paramrxns[q] = ratelaw_sheet[i][1])

\* the reaction lines written for row i
LinesOf(i) == SelectSeq(reactionLines, LAMBDA l : l.name = ReactionNames[i])

\* the reactant tokens of reaction i: each consumed species, in row order,
\* as often as its coefficient says
RECURSIVE ReactantTokens(_, _)
ReactantTokens(i, s) ==
    IF s > Len(SpeciesNames) THEN <<>>
    ELSE LET v == stoic_data[s][i]
         IN  (IF v < 0 THEN [q \in 1..(0 - v) |-> SpeciesNames[s]] ELSE <<>>)
               \o ReactantTokens(i, s + 1)

\* "*" token "*" token ...
RECURSIVE TimesTokens(_)
TimesTokens(tokens) ==
    IF tokens = <<>> THEN <<>>
    ELSE <<"*">> \o tokens[1] \o TimesTokens(Tail(tokens))

HasCoefficient(i) == \E s \in 1..Len(SpeciesNames) : stoic_data[s][i] # 0

\* C1: no two entries of the parameter-name list are equal, whatever rows
\* (mass action k<i>, template k<i>_<j>) have been synthesized.
C1_ParamNamesUnique ==
    \A a, b \in 1..Len(paramnames) : a # b => paramnames[a] # paramnames[b]

C1_Witness ==
    /\ pc = "load"
    /\ Len(paramnames) >= 3
    /\ \E i, j \in 1..Len(ratelaw_sheet) : IsTemplateRow(i) /\ ~IsTemplateRow(j)

\* C2: a formula-template row owns exactly one parameter per non-missing
\* trailing value, and their ordinal indices are 0..n-1 in that order.
C2_OneParamPerGivenValue ==
    \A i \in 1..ProcessedRows :
        IsTemplateRow(i) =>
            LET n == Len(GivenCells(i))
                e == EntriesOf(i)
            IN  /\ Len(e) = n
                /\ \A q \in 1..Len(e) : paramidxs[e[q]] = q - 1

C2_Witness ==
    /\ pc = "load"
    /\ \E i, j \in 1..Len(ratelaw_sheet) :
         /\ IsTemplateRow(i) /\ Len(GivenCells(i)) = 2
         /\ IsTemplateRow(j) /\ Len(GivenCells(j)) = 1 /\ ratelaw_sheet[j][4] = nanText

\* C5: a mass-action row i owns exactly one parameter, named k<i>, with
\* ordinal index 0, and its formula is k<i> times its reactant tokens.
C5_MassAction ==
    \A i \in 1..ProcessedRows :
        ~IsTemplateRow(i) =>
            LET e == EntriesOf(i)
            IN  /\ Len(e) = 1
                /\ paramnames[e[1]] = <<"k">> \o Str(i)
                /\ paramidxs[e[1]] = 0
                /\ \A l \in 1..Len(LinesOf(i)) :
                     LinesOf(i)[l].formula =
                        <<"k">> \o Str(i) \o TimesTokens(ReactantTokens(i, 1))

C5_Witness ==
    /\ pc = "load"
    /\ \E i \in 1..Len(ratelaw_sheet) :
         /\ ~IsTemplateRow(i)
         /\ stoic_data[1][i] = -2
         /\ stoic_data[2][i] = -1
         /\ Len(LinesOf(i)) = 1

\* C4: a row whose stoichiometry column has no negative and no positive
\* coefficient gets no reaction line; every other row gets exactly one.
C4_EmptyReactionsSkipped ==
    /\ \A i \in 1..ProcessedRows :
         Len(LinesOf(i)) = IF HasCoefficient(i) THEN 1 ELSE 0
    /\ \A l \in 1..Len(reactionLines) :
         \E i \in 1..ProcessedRows : reactionLines[l].name = ReactionNames[i]

C4_Witness ==
    /\ pc = "load"
    /\ \E i, j \in 1..Len(ratelaw_sheet) : HasCoefficient(i) /\ ~HasCoefficient(j)

\* C9: the value recorded for the q-th parameter of a formula-template row
\* is the q-th non-missing trailing value of the row, in column order.
C9_ValueIsQthGivenValue ==
    \A i \in 1..ProcessedRows :
        IsTemplateRow(i) =>
            LET given == GivenCells(i)
                e == EntriesOf(i)
            IN  \A q \in 1..Len(e) :
                  q <= Len(given) /\ paramvals[e[q]] = ParseFloat(given[q])


----------------------------------------------------------------------------
(* The order of the stages.                                                *)

Called(fn) == \E c \in 1..Len(calls) : calls[c].fn = fn

Failed(fn) == \E c \in 1..Len(calls) : calls[c].fn = fn /\ ~calls[c].ok

\* the call of fn is in the log and every call before it is one of earlier
CalledAfter(fn, earlier) ==
    \A c \in 1..Len(calls) :
        calls[c].fn = fn =>
            /\ \A fe \in earlier : \E b \in 1..(c - 1) : calls[b].fn = fe /\ calls[b].ok
            /\ \A b \in (c + 1)..Len(calls) : calls[b].fn \notin earlier

NothingAnnotated ==
    /\ \A n \in DOMAIN speciesAnnot : speciesAnnot[n].sets = 0
    /\ \A n \in DOMAIN compAnnot : compAnnot[n].sets = 0

AllAnnotated ==
    /\ \A n \in DOMAIN speciesAnnot : speciesAnnot[n].sets = 1
    /\ \A n \in DOMAIN compAnnot : compAnnot[n].sets = 1

\* C6: the stages run in the order synthesize, convert, annotate, build
\* observables, compile; a failed load ends the run with exit code 1 before
\* the writer, the annotator and the compiler are called; a failed write ends
\* it with exit code 1 before the annotator and the compiler are called; the
\* compiler is called only after a successful load and a successful write.
C6_StagesInOrder ==
    /\ Failed("loadFile") =>
         /\ pc = "exit1"
         /\ ~Called("writeSBMLFile") /\ ~Called("readSBML") /\ ~Called("sbml2amici")
         /\ NothingAnnotated
    /\ Failed("writeSBMLFile") =>
         /\ pc = "exit1"
         /\ ~Called("readSBML") /\ ~Called("sbml2amici")
         /\ NothingAnnotated
    /\ pc = "exit1" => Failed("loadFile") \/ Failed("writeSBMLFile")
    /\ Called("loadFile") => params_all # <<>> /\ ProcessedRows = Len(ratelaw_sheet)
    /\ CalledAfter("writeSBMLFile", {"loadFile"})
    /\ CalledAfter("readSBML", {"loadFile", "writeSBMLFile"})
    /\ ~Called("readSBML") => NothingAnnotated
    /\ CalledAfter("SbmlImporter", {"loadFile", "writeSBMLFile", "readSBML"})
    /\ Called("SbmlImporter") => AllAnnotated
    /\ formula_obs # <<>> => Called("SbmlImporter")
    /\ CalledAfter("sbml2amici", {"loadFile", "writeSBMLFile", "readSBML", "SbmlImporter"})
    /\ Called("sbml2amici") =>
         /\ Len(formula_obs) = Len(ObservablesTxt.columns)
         /\ pc = "done"
    /\ pc = "done" => Called("sbml2amici")

C6_Witness ==
    /\ pc = "exit1"
    /\ calls = <<Call("loadFile", TRUE), Call("writeSBMLFile", FALSE)>>

----------------------------------------------------------------------------
(* Observables.                                                            *)

\* the rows of the membership matrix with a strictly positive weight in
\* column o, ascending
Contributors(o) ==
    SelectSeq([r \in 1..Len(ObservablesTxt.values) |-> r],
              LAMBDA r : ObservablesTxt.values[r][o] > 0)

\* the volume of the compartment species row r lives in
HomeVolume(r) ==
    LET home == species_sheet[r][2]
        c == CHOOSE k \in 1..Len(compartment_sheet) : compartment_sheet[k][1] = home
    IN  compartment_sheet[c][2]

CytoplasmVolume ==
    compartment_sheet[CHOOSE k \in 1..Len(compartment_sheet) :
                         compartment_sheet[k][1] = "Cytoplasm"][2]

\* term is  species r * (homeVolume/cytoplasmVolume) * weight
IsTermOf(term, r, o) ==
    /\ term.species = ObservablesTxt.index[r]
    /\ term.coef[2] > 0
    /\ term.coef[1] * CytoplasmVolume
         = HomeVolume(r) * ObservablesTxt.values[r][o] * term.coef[2]

\* C3: the formula of an observable with at least one positive-weight
\* contributor is the sum, over the species of strictly positive weight in
\* row order, of species * (compartmentVolume/cytoplasmVolume) * weight,
\* whether it has one, two or more contributors.
C3_LinearCombination ==
    \A o \in 1..Len(formula_obs) :
        LET sp == Contributors(o)
        IN  Len(sp) >= 1 =>
              /\ Len(formula_obs[o]) = Len(sp)
              /\ \A j \in 1..Len(sp) : IsTermOf(formula_obs[o][j], sp[j], o)

C3_Witness ==
    /\ pc = "done"
    /\ Len(Contributors(1)) = 3
    /\ Len(Contributors(2)) = 2
    /\ ObservablesTxt.values[1][2] <= 0

\* C7: the species named in the formula of every observable column are
\* exactly the species of strictly positive weight in that column, in row
\* order, also for a column with no strictly positive weight.
C7_OwnColumnOnly ==
    \A o \in 1..Len(formula_obs) :
        [j \in 1..Len(formula_obs[o]) |-> formula_obs[o][j].species]
          = [j \in 1..Len(Contributors(o)) |-> ObservablesTxt.index[Contributors(o)[j]]]


----------------------------------------------------------------------------
(* Substitution of the templated parameter tokens.                         *)

\* the characters that separate the identifiers of a formula
Operators == {"*", "/", "+", "-", "(", ")", " "}

\* the length of the identifier s starts with
RECURSIVE IdentLen(_)
IdentLen(s) ==
    IF s = <<>> \/ s[1] \in Operators THEN 0 ELSE 1 + IdentLen(Tail(s))

\* the formula as identifiers and single operator characters
RECURSIVE Tokenize(_)
Tokenize(s) ==
    IF s = <<>> THEN <<>>
    ELSE LET n == IdentLen(s)
         IN  IF n = 0 THEN <<<<s[1]>>>> \o Tokenize(Tail(s))
             ELSE <<SubSeq(s, 1, n)>> \o Tokenize(SubSeq(s, n + 1, Len(s)))

\* an identifier of the grammar  k, decoration without digits, digits
IsParamToken(tok) ==
    /\ Len(tok) >= 1
    /\ tok[1] \notin Operators
    /\ tok[1] = "k"
    /\ \E d \in 1..Len(tok) :
         /\ \A c \in 2..d : ~IsDigit(tok[c])
         /\ \A c \in (d + 1)..Len(tok) : IsDigit(tok[c])

\* a parameter token carrying the slot suffix _j
IsSlotToken(tok, j) ==
    LET suffix == <<"_">> \o Str(j)
        stem == Len(tok) - Len(suffix)
    IN  /\ stem >= 1
        /\ SubSeq(tok, stem + 1, Len(tok)) = suffix
        /\ IsParamToken(SubSeq(tok, 1, stem))

RECURSIVE Join(_)
Join(tokens) == IF tokens = <<>> THEN <<>> ELSE tokens[1] \o Join(Tail(tokens))

\* the template of row i with exactly its templated tokens replaced
Substituted(i, template, n) ==
    LET name(j) == <<"k">> \o Str(i) \o <<"_">> \o Str(j)
        tokens == Tokenize(template)
    IN  Join([t \in 1..Len(tokens) |->
               IF n = 1
               THEN IF IsParamToken(tokens[t]) THEN name(1) ELSE tokens[t]
               ELSE IF \E j \in 1..n : IsSlotToken(tokens[t], j)
                    THEN name(CHOOSE j \in 1..n : IsSlotToken(tokens[t], j))
                    ELSE tokens[t]])

\* C8: in a formula-template row i the substitution replaces exactly the
\* templated tokens: with n >= 2 parameters every token with slot suffix _j
\* becomes k<i>_<j>, with one parameter every k-prefixed templated token
\* becomes k<i>_1, and no other text of the formula is changed.
C8_SubstitutionExact ==
    \A i \in 1..ProcessedRows :
        IsTemplateRow(i) /\ Len(GivenCells(i)) >= 1 =>
            \A l \in 1..Len(LinesOf(i)) :
                LinesOf(i)[l].formula
                  = Substituted(i, ratelaw_sheet[i][3], Len(GivenCells(i)))

----------------------------------------------------------------------------
(* Annotations.                                                            *)

\* the annotation columns of a species row, from column c on, up to the first
\* empty or missing one
RECURSIVE AnnotationFrom(_, _)
AnnotationFrom(row, c) ==
    IF c > Len(row) \/ Strip(row[c]) = <<>> \/ Strip(row[c]) = nanText THEN <<>>
    ELSE <<" ">> \o row[c] \o AnnotationFrom(row, c + 1)

\* C10: the annotation of every species is the concatenation, in column
\* order, of the columns after name, compartment and initial value, up to
\* the first empty or missing one, and every species and compartment has its
\* annotation set exactly once.
C10_AnnotationFromColumns ==
    /\ \A r \in 1..Len(species_sheet) :
         LET a == speciesAnnot[species_sheet[r][1]]
         IN  /\ a.sets <= 1
             /\ a.sets = 1 => a.text = AnnotationFrom(species_sheet[r], 4)
    /\ \A n \in DOMAIN compAnnot : compAnnot[n].sets <= 1
    /\ pc \in {"observables", "done"} => AllAnnotated

====
